---- MODULE Spec2Model ----
(***************************************************************************)
(* Model of the PDF header remover (src/main.py).                          *)
(*                                                                         *)
(* Two state machines share the module:                                    *)
(*   SpecMerge   - union_rects, one outer-loop iteration per step, over    *)
(*                 every bounded input sequence of rectangles;             *)
(*   SpecRequest - one POST /remove-headers request: remove_headers and    *)
(*                 the process_pdf_bytes it calls, one step per external   *)
(*                 call that can raise.                                    *)
(* Coordinates are floats in the program; only comparisons, min and max    *)
(* are applied to them, so integers model them exactly.                    *)
(***************************************************************************)
EXTENDS Integers, Sequences, FiniteSets, TLC

VARIABLES
    \* ---- union_rects ----
    rects,        \* the argument of union_rects
    merged,       \* its accumulator list
    k,            \* number of input rectangles already processed
    appended,     \* number of inputs that were appended (met no entry)
    mpc,          \* "loop" | "returned"
    \* ---- one request ----
    pc,           \* position in remove_headers / process_pdf_bytes
    ctOK,         \* file.content_type is application/pdf or octet-stream
    header_texts, \* the form field, as its sequence of lines
    total,        \* len(doc)
    terms,        \* the parsed header terms
    i,            \* page index of the page loop
    t,            \* number of terms already searched on page i
    all_hits,     \* number of hits collected on page i
    docOpen,      \* the document is open
    hist,         \* observations of the run (what was called, what failed)
    resp          \* the HTTP response, or NoResp

mvars == <<rects, merged, k, appended, mpc>>
rvars == <<pc, ctOK, header_texts, total, terms, i, t, all_hits, docOpen,
           hist, resp>>
vars == <<rects, merged, k, appended, mpc, pc, ctOK, header_texts, total,
          terms, i, t, all_hits, docOpen, hist, resp>>

----------------------------------------------------------------------------
(* Bounds *)

MaxX == 1         \* x coordinates range over 0..MaxX
MaxY == 1         \* y coordinates range over 0..MaxY
MaxRects == 3     \* longest input sequence of union_rects
MaxTextLen == 3   \* longest header_texts, in characters
MaxPages == 2     \* largest len(doc)
MaxHits == 1      \* most rectangles one search call returns

----------------------------------------------------------------------------
(* Rectangles and union_rects *)

Min(a, b) == IF a <= b THEN a ELSE b
Max(a, b) == IF a >= b THEN a ELSE b

\* the rectangles a text search can return: x0 <= x1 and y0 <= y1
Rect == {r \in [x0 : 0..MaxX, y0 : 0..MaxY, x1 : 0..MaxX, y1 : 0..MaxY] :
            r.x0 <= r.x1 /\ r.y0 <= r.y1}

\* the inclusive test of the inner loop
Intersects_strict(r, mr) ==
    r.x1 > mr.x0 /\ r.x0 < mr.x1 /\ r.y1 > mr.y0 /\ r.y0 < mr.y1

Intersects(r, mr) ==
    r.x1 >= mr.x0 /\ r.x0 <= mr.x1 /\ r.y1 >= mr.y0 /\ r.y0 <= mr.y1

\* the rectangle that replaces merged[i]
BoundingUnion_keep(mr, r) == mr

BoundingUnion(mr, r) ==
    [x0 |-> Min(mr.x0, r.x0), y0 |-> Min(mr.y0, r.y0),
     x1 |-> Max(mr.x1, r.x1), y1 |-> Max(mr.y1, r.y1)]

\* the inner loop from entry j on, with its break, and the append after it
RECURSIVE Scan(_, _, _)
RECURSIVE Scan_nobreak(_, _, _)
Scan_nobreak(acc, r, j) ==
    IF j > Len(acc) THEN
        IF \E n \in 1..Len(acc) : Intersects(r, acc[n]) THEN acc
        ELSE Append(acc, r)
    ELSE IF Intersects(r, acc[j])
         THEN Scan_nobreak([acc EXCEPT ![j] = BoundingUnion(acc[j], r)], r, j + 1)
         ELSE Scan_nobreak(acc, r, j + 1)

Scan(acc, r, j) ==
    IF j > Len(acc) THEN Append(acc, r)
    ELSE IF Intersects(r, acc[j])
         THEN [acc EXCEPT ![j] = BoundingUnion(acc[j], r)]
         ELSE Scan(acc, r, j + 1)

\* one iteration of the outer loop
MergeStep(acc, r) == Scan(acc, r, 1)

\* the whole function
RECURSIVE Fold(_, _)
Fold(acc, rs) == IF rs = <<>> THEN acc ELSE Fold(MergeStep(acc, Head(rs)), Tail(rs))

union_rects(rs) == Fold(<<>>, rs)

----------------------------------------------------------------------------
(* union_rects as a state machine *)

NoResp == [status |-> 0, body |-> "none", pdf |-> FALSE]

RequestIdle ==
    /\ pc = "idle" /\ ctOK = TRUE /\ header_texts = <<>> /\ total = 0
    /\ terms = <<>> /\ i = 0 /\ t = 0 /\ all_hits = 0 /\ docOpen = FALSE
    /\ hist = {} /\ resp = NoResp

InitMerge ==
    /\ \E n \in 0..MaxRects : rects \in [1..n -> Rect]
    /\ merged = <<>> /\ k = 0 /\ appended = 0 /\ mpc = "loop"
    /\ RequestIdle

MergeNext ==
    /\ mpc = "loop" /\ k < Len(rects)
    /\ merged' = MergeStep(merged, rects[k + 1])
    /\ appended' = IF \E n \in 1..Len(merged) : Intersects(rects[k + 1], merged[n])
                   THEN appended ELSE appended + 1
    /\ k' = k + 1
    /\ UNCHANGED <<rects, mpc>>
    /\ UNCHANGED rvars

MergeReturn ==
    /\ mpc = "loop" /\ k = Len(rects)
    /\ mpc' = "returned"
    /\ UNCHANGED <<rects, merged, k, appended>>
    /\ UNCHANGED rvars

NextMerge == MergeNext \/ MergeReturn

SpecMerge == InitMerge /\ [][NextMerge]_vars

----------------------------------------------------------------------------
(* Properties of union_rects *)

Range(s) == {s[n] : n \in 1..Len(s)}

\* geometric containment of inner in outer
Contains(outer, inner) ==
    /\ outer.x0 <= inner.x0 /\ outer.y0 <= inner.y0
    /\ inner.x1 <= outer.x1 /\ inner.y1 <= outer.y1

\* a and b overlap or share an edge or a corner
Touch(a, b) ==
    /\ a.x0 <= b.x1 /\ b.x0 <= a.x1
    /\ a.y0 <= b.y1 /\ b.y0 <= a.y1

\* the smallest rectangle around a and b
BBox(a, b) ==
    [x0 |-> IF a.x0 < b.x0 THEN a.x0 ELSE b.x0,
     y0 |-> IF a.y0 < b.y0 THEN a.y0 ELSE b.y0,
     x1 |-> IF a.x1 > b.x1 THEN a.x1 ELSE b.x1,
     y1 |-> IF a.y1 > b.y1 THEN a.y1 ELSE b.y1]

\* C1: every input rectangle processed so far lies inside at least one
\* accumulator entry; at the return, every input rectangle lies inside at
\* least one rectangle of the result.
C1_InputsCovered ==
    \A n \in 1..k : \E m \in 1..Len(merged) : Contains(merged[m], rects[n])

\* three inputs were merged into fewer regions, one of which is a proper
\* bounding union (equal to none of the inputs)
C1_Witness ==
    /\ mpc = "returned" /\ Len(rects) = 3 /\ Len(merged) < 3
    /\ \E m \in 1..Len(merged) : merged[m] \notin Range(rects)

\* C2: no two distinct rectangles of the result of union_rects intersect or
\* touch each other.
C2_OutputsDisjoint ==
    mpc = "returned" =>
        \A a, b \in 1..Len(merged) : a # b => ~Touch(merged[a], merged[b])

\* C3: merging the result of union_rects again yields the same set of
\* rectangles.
C3_MergeIdempotent ==
    mpc = "returned" => Range(union_rects(merged)) = Range(merged)

\* C4: for an input of exactly two rectangles, the result is their bounding
\* union alone when they overlap or touch, and the two rectangles unchanged
\* when they do not.
C4_TwoRects ==
    (mpc = "returned" /\ Len(rects) = 2) =>
        IF Touch(rects[1], rects[2])
        THEN merged = <<BBox(rects[1], rects[2])>>
        ELSE merged = rects

\* two rectangles that share exactly one point (the upper right corner of
\* the first is the lower left corner of the second) were merged into a
\* bounding union different from both
C4_Witness ==
    /\ mpc = "returned" /\ Len(rects) = 2 /\ Len(merged) = 1
    /\ rects[1].x1 = rects[2].x0 /\ rects[1].y1 = rects[2].y0
    /\ rects[1].y0 < rects[1].y1 /\ rects[2].x0 < rects[2].x1
    /\ merged[1] \notin Range(rects)

\* C10: each input rectangle changes exactly the lowest-index accumulator
\* entry it intersects or touches, which becomes the bounding union of the
\* two, and leaves every other entry as it was; when it touches none it is
\* appended at the end. The length of the accumulator is the number of
\* inputs that met no intersecting entry.
C10_StepProp ==
    k' = k + 1 =>
        LET r == rects[k + 1]
            hitIdx == {n \in 1..Len(merged) : Touch(r, merged[n])}
        IN  /\ IF hitIdx = {}
               THEN merged' = Append(merged, r)
               ELSE LET first == CHOOSE n \in hitIdx : \A m \in hitIdx : n <= m
                    IN  /\ Len(merged') = Len(merged)
                        /\ \A n \in 1..Len(merged) :
                              merged'[n] = IF n = first THEN BBox(merged[n], r)
                                           ELSE merged[n]
            /\ Len(merged') = appended'

C10_GreedyFirstMatch == [][C10_StepProp]_vars

\* the third input touches both earlier regions and was merged into the
\* first only; the second is returned untouched
C10_Witness ==
    /\ mpc = "returned" /\ Len(rects) = 3 /\ Len(merged) = 2
    /\ Touch(rects[3], rects[1]) /\ Touch(rects[3], rects[2])
    /\ merged[1] = BBox(rects[1], rects[3]) /\ merged[1] # rects[1]
    /\ merged[2] = rects[2]

----------------------------------------------------------------------------
(* Parsing of header_texts (process_pdf_bytes, first statement) *)

Chars == {"a", " ", "\n"}

\* str.splitlines(): the pieces between line breaks, without a final empty
\* piece
RECURSIVE SplitFrom(_, _, _)
SplitFrom(s, n, cur) ==
    IF n > Len(s) THEN (IF cur = <<>> THEN <<>> ELSE <<cur>>)
    ELSE IF s[n] = "\n" THEN <<cur>> \o SplitFrom(s, n + 1, <<>>)
         ELSE SplitFrom(s, n + 1, Append(cur, s[n]))

SplitLines(s) == SplitFrom(s, 1, <<>>)

\* str.strip(): drop leading and trailing whitespace
RECURSIVE LStrip(_)
LStrip(ln) == IF ln # <<>> /\ Head(ln) \in {" ", "\n"} THEN LStrip(Tail(ln)) ELSE ln

RECURSIVE RStrip(_)
RStrip(ln) ==
    IF ln # <<>> /\ ln[Len(ln)] \in {" ", "\n"}
    THEN RStrip(SubSeq(ln, 1, Len(ln) - 1)) ELSE ln

Strip_none(ln) == ln

Strip(ln) == RStrip(LStrip(ln))

\* [ln.strip() for ln in terms_text.splitlines() if ln.strip()]
RECURSIVE StripNonBlank(_)
StripNonBlank(lines) ==
    IF lines = <<>> THEN <<>>
    ELSE IF Strip(Head(lines)) # <<>>
         THEN <<Strip(Head(lines))>> \o StripNonBlank(Tail(lines))
         ELSE StripNonBlank(Tail(lines))

ParseTermsText(text) == StripNonBlank(SplitLines(text))

----------------------------------------------------------------------------
(* One POST /remove-headers request *)

\* sites of an exception that is not swallowed where it is raised
RaiseRead == 1
RaiseOpen == 2
RaisePage == 3
RaiseSearch == 4
RaiseRedact == 5
RaiseSave == 6
RaiseClose == 7
RaiseReturn == 8

\* the two calls of doc.close()
CloseInBody == 1
CloseInHandler == 2

ErrorResp(code) == [status |-> code, body |-> "error", pdf |-> FALSE]
\* what the framework sends for a raised HTTPException(status_code, detail)
DetailResp(code) == [status |-> code, body |-> "detail", pdf |-> FALSE]
PdfResp == [status |-> 200, body |-> "pdf", pdf |-> TRUE]

MergeIdle ==
    rects = <<>> /\ merged = <<>> /\ k = 0 /\ appended = 0 /\ mpc = "idle"

InitRequest ==
    /\ MergeIdle
    /\ pc = "validate"
    /\ ctOK \in BOOLEAN
    /\ \E n \in 0..MaxTextLen : header_texts \in [1..n -> Chars]
    /\ total = 0 /\ terms = <<>> /\ i = 0 /\ t = 0 /\ all_hits = 0
    /\ docOpen = FALSE /\ hist = {} /\ resp = NoResp

\* remove_headers: the content-type test
ValidateUpload ==
    /\ pc = "validate"
    /\ IF ctOK
       THEN pc' = "read" /\ resp' = resp
       ELSE pc' = "done" /\ resp' = DetailResp(400)
    /\ UNCHANGED <<ctOK, header_texts, total, terms, i, t, all_hits, docOpen, hist>>
    /\ UNCHANGED mvars

\* remove_headers: await file.read(), inside the try of the handler
ReadUpload ==
    /\ pc = "read"
    /\ \/ /\ pc' = "parse" /\ resp' = resp
          /\ hist' = hist \cup {<<"read", 0>>}
       \/ \E code \in {400, 500} :      \* a ValueError, or any other Exception
          /\ pc' = "done" /\ resp' = ErrorResp(code)
          /\ hist' = hist \cup {<<"raised", RaiseRead>>}
    /\ UNCHANGED <<ctOK, header_texts, total, terms, i, t, all_hits, docOpen>>
    /\ UNCHANGED mvars

\* process_pdf_bytes: parse the terms, ValueError when none is left
ParseTerms ==
    /\ pc = "parse"
    /\ terms' = ParseTermsText(header_texts)
    /\ hist' = hist \cup {<<"called", 0>>}
    /\ IF terms' = <<>>
       THEN pc' = "done" /\ resp' = ErrorResp(400)
       ELSE pc' = "open" /\ resp' = resp
    /\ UNCHANGED <<ctOK, header_texts, total, i, t, all_hits, docOpen>>
    /\ UNCHANGED mvars

\* process_pdf_bytes: fitz.open, ValueError when it raises
OpenDoc ==
    /\ pc = "open"
    /\ \/ \E n \in 0..MaxPages :
          /\ total' = n /\ docOpen' = TRUE /\ i' = 0
          /\ hist' = hist \cup {<<"opened", 0>>}
          /\ pc' = "page" /\ resp' = resp
       \/ /\ pc' = "done" /\ resp' = ErrorResp(400)
          /\ hist' = hist \cup {<<"raised", RaiseOpen>>}
          /\ UNCHANGED <<total, docOpen, i>>
    /\ UNCHANGED <<ctOK, header_texts, terms, t, all_hits>>
    /\ UNCHANGED mvars

\* process_pdf_bytes: head of the page loop; doc[i], page.rect and the band
PageBegin ==
    /\ pc = "page"
    /\ IF i < total
       THEN \/ /\ pc' = "search" /\ t' = 0 /\ all_hits' = 0 /\ hist' = hist
            \/ /\ pc' = "handler" /\ UNCHANGED <<t, all_hits>>
               /\ hist' = hist \cup {<<"raised", RaisePage>>}
       ELSE pc' = "save" /\ UNCHANGED <<t, all_hits, hist>>
    /\ UNCHANGED <<ctOK, header_texts, total, terms, i, docOpen, resp>>
    /\ UNCHANGED mvars

\* process_pdf_bytes: the body of the term loop for terms[t + 1]: the search
\* restricted to the band, its two except clauses, and all_hits.extend
SearchTerm ==
    /\ pc = "search" /\ t < Len(terms)
    /\ \/ \* the restricted search returns
          \E found \in 0..MaxHits :
             /\ all_hits' = all_hits + found /\ hist' = hist
             /\ t' = t + 1 /\ pc' = pc
       \/ \* it raises TypeError; the fallback search returns, or raises
          \* outside any try of the loop
          \/ \E found \in 0..MaxHits :
                /\ all_hits' = all_hits + found
                /\ hist' = hist \cup {<<"fallback", i>>}
                /\ t' = t + 1 /\ pc' = pc
          \/ /\ pc' = "handler"
             /\ hist' = hist \cup {<<"searchFailed", i>>, <<"raised", RaiseSearch>>}
             /\ UNCHANGED <<all_hits, t>>
       \/ \* it raises another Exception; the fallback search returns, or
          \* raises and found = []
          \/ \E found \in 0..MaxHits :
                /\ all_hits' = all_hits + found
                /\ hist' = hist \cup {<<"fallback", i>>}
                /\ t' = t + 1 /\ pc' = pc
          \/ /\ all_hits' = all_hits
             /\ hist' = hist \cup {<<"searchFailed", i>>}
             /\ t' = t + 1 /\ pc' = pc
    /\ UNCHANGED <<ctOK, header_texts, total, terms, i, docOpen, resp>>
    /\ UNCHANGED mvars

\* process_pdf_bytes: after the term loop; union_rects, add_redact_annot and
\* apply_redactions when all_hits is not empty
Redact_swallow ==
    /\ pc = "search" /\ t = Len(terms)
    /\ \/ hist' = hist \cup {<<"searched", i>>}
                       \cup (IF all_hits > 0 THEN {<<"hits", i>>, <<"redacted", i>>} ELSE {})
       \/ /\ all_hits > 0
          /\ hist' = hist \cup {<<"searched", i>>, <<"hits", i>>, <<"raised", RaiseRedact>>}
    /\ i' = i + 1 /\ pc' = "page"
    /\ UNCHANGED <<ctOK, header_texts, total, terms, t, all_hits, docOpen, resp>>
    /\ UNCHANGED mvars

Redact ==
    /\ pc = "search" /\ t = Len(terms)
    /\ \/ /\ hist' = hist \cup {<<"searched", i>>}
                          \cup (IF all_hits > 0 THEN {<<"hits", i>>, <<"redacted", i>>} ELSE {})
          /\ i' = i + 1 /\ pc' = "page"
       \/ /\ all_hits > 0
          /\ hist' = hist \cup {<<"searched", i>>, <<"hits", i>>, <<"raised", RaiseRedact>>}
          /\ i' = i /\ pc' = "handler"
    /\ UNCHANGED <<ctOK, header_texts, total, terms, t, all_hits, docOpen, resp>>
    /\ UNCHANGED mvars

\* process_pdf_bytes: doc.save into the buffer
Save ==
    /\ pc = "save"
    /\ \/ pc' = "close" /\ hist' = hist \cup {<<"saved", 0>>}
       \/ pc' = "handler" /\ hist' = hist \cup {<<"raised", RaiseSave>>}
    /\ UNCHANGED <<ctOK, header_texts, total, terms, i, t, all_hits, docOpen, resp>>
    /\ UNCHANGED mvars

\* process_pdf_bytes: doc.close() after the save. A close that raises may
\* or may not have released the document.
CloseDoc ==
    /\ pc = "close"
    /\ \/ /\ docOpen' = FALSE /\ pc' = "return"
          /\ hist' = hist \cup {<<"closeOK", CloseInBody>>}
       \/ /\ docOpen' \in BOOLEAN
          /\ pc' = "handler"
          /\ hist' = hist \cup {<<"closeRaised", CloseInBody>>, <<"raised", RaiseClose>>}
    /\ UNCHANGED <<ctOK, header_texts, total, terms, i, t, all_hits, resp>>
    /\ UNCHANGED mvars

\* process_pdf_bytes: out_buf.seek, out_buf.read and the return; then the
\* StreamingResponse of remove_headers
ReturnBytes ==
    /\ pc = "return"
    /\ \/ pc' = "done" /\ resp' = PdfResp /\ hist' = hist
       \/ pc' = "handler" /\ resp' = resp
          /\ hist' = hist \cup {<<"raised", RaiseReturn>>}
    /\ UNCHANGED <<ctOK, header_texts, total, terms, i, t, all_hits, docOpen>>
    /\ UNCHANGED mvars

\* process_pdf_bytes: the except clause: doc.close() with its exception
\* swallowed, then ValueError, which remove_headers turns into a 400
Handler_noclose ==
    /\ pc = "handler"
    /\ pc' = "done" /\ resp' = ErrorResp(400)
    /\ UNCHANGED <<ctOK, header_texts, total, terms, i, t, all_hits, docOpen, hist>>
    /\ UNCHANGED mvars

Handler ==
    /\ pc = "handler"
    /\ \/ /\ docOpen /\ docOpen' = FALSE
          /\ hist' = hist \cup {<<"closeOK", CloseInHandler>>}
       \/ /\ docOpen' \in BOOLEAN /\ (docOpen' => docOpen)
          /\ hist' = hist \cup {<<"closeRaised", CloseInHandler>>}
    /\ pc' = "done" /\ resp' = ErrorResp(400)
    /\ UNCHANGED <<ctOK, header_texts, total, terms, i, t, all_hits>>
    /\ UNCHANGED mvars

NextRequest ==
    \/ ValidateUpload \/ ReadUpload \/ ParseTerms \/ OpenDoc \/ PageBegin
    \/ SearchTerm \/ Redact \/ Save \/ CloseDoc \/ ReturnBytes \/ Handler

SpecRequest == InitRequest /\ [][NextRequest]_vars

----------------------------------------------------------------------------
(* Properties of a request *)

Did(name, n) == <<name, n>> \in hist
Opened == Did("opened", 0)
Raised == {e \in hist : e[1] = "raised"}
CloseCalls == {e \in hist : e[1] \in {"closeOK", "closeRaised"}}

\* C5: when the search for a term fails on a page (the restricted search
\* raises, whatever the exception, and the fallback search raises too), the
\* failure does not leave the term loop: it is never the exception that
\* aborts the document, and a request in which nothing else failed is
\* answered with the PDF.
C5_SearchFailureNeverAborts ==
    (\E p \in 0..MaxPages : Did("searchFailed", p)) =>
        /\ ~Did("raised", RaiseSearch)
        /\ (pc = "done" /\ Raised \subseteq {<<"raised", RaiseSearch>>})
              => resp = PdfResp

C7_NoPartialOutput ==
    /\ resp.pdf =>
          /\ \A p \in 0..(total - 1) :
                Did("searched", p) /\ (Did("hits", p) => Did("redacted", p))
          /\ Did("saved", 0)
          /\ Raised = {}
    /\ (pc = "done" /\ Raised # {}) =>
          /\ resp.status \in {400, 500}
          /\ resp.body = "error" /\ ~resp.pdf

\* a two-page document, both pages with hits, answered with the PDF
C7_Witness ==
    /\ pc = "done" /\ resp = PdfResp /\ total = 2
    /\ Did("redacted", 0) /\ Did("redacted", 1)

\* C8: an upload whose content type is not accepted is answered with a 400
\* whose body is {"error": message}, and nothing was read, opened or
\* processed.
C8_BadContentTypeRejected ==
    (~ctOK /\ pc = "done") =>
        /\ resp.status = 400 /\ resp.body = "error"
        /\ ~Did("read", 0) /\ ~Did("called", 0) /\ ~Opened /\ ~docOpen

\* header_texts is empty or has only blank lines
BlankText(text) == \A n \in 1..Len(text) : text[n] # "a"

====
